---- MODULE Spec2Model ----
(***************************************************************************)
(* Model of github.com/goschtalt/yaml-encoder (src/encoder.go).            *)
(*                                                                         *)
(* Go strings and byte slices are sequences of bytes (0..255).  The        *)
(* package has no state of its own: every specification below draws the    *)
(* argument of one call from a bounded set and its action runs the whole   *)
(* function.                                                               *)
(***************************************************************************)
EXTENDS Integers, Sequences, FiniteSets, TLC

VARIABLES pc, obj, order, n, b, got, err, input, style, token, comment, buf, aligned, realigned

vars == <<pc, obj, order, n, b, got, err, input, style, token, comment, buf, aligned, realigned>>

\* The value of a variable the running specification does not use.
None == "none"
\* Go's nil error.
Nil == "nil"
\* A nil []byte: distinct from every byte string, the empty one included.
NilBytes == <<-1>>

(***************************************************************************)
(* Bytes the code names.                                                   *)
(***************************************************************************)
Tab == 9
NL == 10
CR == 13
Space == 32
DQuote == 34
Hash == 35
Apostrophe == 39
Dash == 45
Colon == 58
PadChar == 61
Backslash == 92
RuneError == 65533

\* "unknown"
Unknown == <<117, 110, 107, 110, 111, 119, 110>>
\* "# "
Marker == <<Hash, Space>>
\* "null\n"
NullDoc == <<110, 117, 108, 108, NL>>

(***************************************************************************)
(* Helpers on byte sequences.                                              *)
(***************************************************************************)
Pow2(k) == CASE k = 0 -> 1 [] k = 1 -> 2 [] k = 2 -> 4 [] k = 3 -> 8 [] k = 4 -> 16
             [] k = 5 -> 32 [] k = 6 -> 64 [] k = 7 -> 128 [] k = 8 -> 256
             [] k = 9 -> 512 [] k = 10 -> 1024 [] k = 11 -> 2048

At(s, i) == IF i >= 1 /\ i <= Len(s) THEN s[i] ELSE 0

Take(s, k) == SubSeq(s, 1, k)

Drop(s, k) == SubSeq(s, k + 1, Len(s))

RECURSIVE Spaces(_)
Spaces(k) == IF k <= 0 THEN <<>> ELSE <<Space>> \o Spaces(k - 1)

RECURSIVE Flatten(_)
Flatten(ss) == IF ss = <<>> THEN <<>> ELSE Head(ss) \o Flatten(Tail(ss))

RECURSIVE Count(_, _)
Count(s, c) == IF s = <<>> THEN 0 ELSE (IF Head(s) = c THEN 1 ELSE 0) + Count(Tail(s), c)

Contains(s, c) == \E i \in 1..Len(s) : s[i] = c

\* All sequences over S of length at most k.
RECURSIVE SeqsUpTo(_, _)
SeqsUpTo(S, k) ==
    IF k = 0 THEN {<<>>}
    ELSE LET shorter == SeqsUpTo(S, k - 1)
         IN  shorter \cup {Append(s, c) : s \in {t \in shorter : Len(t) = k - 1}, c \in S}

(***************************************************************************)
(* encoding/base32, StdEncoding: the alphabet A-Z2-7 with '=' padding.     *)
(***************************************************************************)
\* StdEncoding's alphabet: digit d (0..31) as a byte.
EncodeDigit(d) == IF d < 26 THEN 65 + d ELSE 24 + d

\* StdEncoding's decode map: the digit of a byte, -1 for a byte outside the alphabet.
DecodeDigit(c) ==
    IF c >= 65 /\ c <= 90 THEN c - 65
    ELSE IF c >= 50 /\ c <= 55 THEN c - 24
    ELSE -1

\* The k-th (0..7) 5-bit digit of a group of at most 5 bytes, missing bytes being 0.
GroupDigit(g, k) ==
    LET i == (5 * k) \div 8
        o == (5 * k) % 8
        w == At(g, i + 1) * 256 + At(g, i + 2)
    IN  (w \div Pow2(11 - o)) % 32

\* The characters one group of 1..5 bytes encodes to.
GroupChars(len) == CASE len = 1 -> 2 [] len = 2 -> 4 [] len = 3 -> 5 [] len = 4 -> 7 [] len = 5 -> 8

EncodeGroup(g) ==
    [k \in 1..8 |-> IF k <= GroupChars(Len(g)) THEN EncodeDigit(GroupDigit(g, k - 1)) ELSE PadChar]

RECURSIVE EncodeToString(_)
EncodeToString(src) ==
    IF src = <<>> THEN <<>>
    ELSE IF Len(src) <= 5 THEN EncodeGroup(src)
    ELSE EncodeGroup(Take(src, 5)) \o EncodeToString(Drop(src, 5))

\* DecodeString first removes every '\r' and '\n'.
RECURSIVE StripNewlines(_)
StripNewlines(s) ==
    IF s = <<>> THEN <<>>
    ELSE IF Head(s) \in {CR, NL} THEN StripNewlines(Tail(s))
    ELSE <<Head(s)>> \o StripNewlines(Tail(s))

\* The digits of a group before its padding: 8 without padding.
GroupDlen(g) == IF Contains(g, PadChar) THEN (CHOOSE j \in 1..8 : g[j] = PadChar /\ \A i \in 1..(j - 1) : g[i] # PadChar) - 1 ELSE 8

\* A group of 8 characters decodes: digits, then (in the last group only) a
\* legal amount of padding and nothing else.
GroupValid(g, last) ==
    LET dlen == GroupDlen(g)
    IN  /\ \A i \in 1..dlen : DecodeDigit(g[i]) >= 0
        /\ \A i \in (dlen + 1)..8 : g[i] = PadChar
        /\ dlen < 8 => (last /\ dlen \in {2, 4, 5, 7})

\* The j-th (0..4) byte of a group of 8 characters.
GroupByte(g, j) ==
    LET d(i) == IF i <= 8 /\ DecodeDigit(At(g, i)) >= 0 THEN DecodeDigit(At(g, i)) ELSE 0
        i == (8 * j) \div 5
        o == (8 * j) % 5
        w == d(i + 1) * 1024 + d(i + 2) * 32 + d(i + 3)
    IN  (w \div Pow2(7 - o)) % 256

GroupBytes(dlen) == CASE dlen = 8 -> 5 [] dlen = 7 -> 4 [] dlen = 5 -> 3 [] dlen = 4 -> 2 [] dlen = 2 -> 1

DecodeGroup(g) == [j \in 1..GroupBytes(GroupDlen(g)) |-> GroupByte(g, j - 1)]

RECURSIVE DecodeGroups(_)
DecodeGroups(s) ==
    IF s = <<>> THEN [ok |-> TRUE, bytes |-> <<>>]
    ELSE IF Len(s) < 8 \/ ~GroupValid(Take(s, 8), Len(s) = 8) THEN [ok |-> FALSE, bytes |-> <<>>]
    ELSE LET rest == DecodeGroups(Drop(s, 8))
         IN  IF rest.ok THEN [ok |-> TRUE, bytes |-> DecodeGroup(Take(s, 8)) \o rest.bytes]
             ELSE rest

DecodeString(s) == DecodeGroups(StripNewlines(s))

(***************************************************************************)
(* The comment codec.                                                      *)
(***************************************************************************)
\* encodeComment without the "unknown" substitution.
encodeComment_NoSentinel(s) == EncodeToString(s)

encodeComment(s) == EncodeToString(IF Len(s) = 0 THEN Unknown ELSE s)

decodeComment(s) ==
    LET d == DecodeString(s)
    IN  IF ~d.ok THEN [s |-> <<>>, err |-> "CorruptInputError"]
        ELSE [s |-> d.bytes, err |-> Nil]

(***************************************************************************)
(* determineStyle.                                                         *)
(***************************************************************************)
\* What `for idx, ch := range input` yields at byte index i (1-based): the rune
\* and its width.  One- and two-byte UTF-8 forms decode; any other byte is
\* the replacement rune, one byte wide.
DecodeRune(s, i) ==
    IF s[i] < 128 THEN [ch |-> s[i], width |-> 1]
    ELSE IF s[i] >= 194 /\ s[i] <= 223 /\ At(s, i + 1) >= 128 /\ At(s, i + 1) <= 191
         THEN [ch |-> (s[i] - 192) * 64 + (s[i + 1] - 128), width |-> 2]
    ELSE [ch |-> RuneError, width |-> 1]

\* The switch of determineStyle's loop for the rune ch at byte offset idx (0-based).
RuneSetsNewlines(ch) == ch = NL

RuneNeedsQuotes(ch, idx) ==
    /\ ch # NL
    /\ \/ ch < 32 /\ ch # Tab
       \/ (ch = Colon \/ ch = Dash) /\ idx = 0
       \/ ch = Backslash
       \/ ch = DQuote
       \/ ch > 127

RECURSIVE ScanRunes(_, _, _)
ScanRunes(s, i, flags) ==
    IF i > Len(s) THEN flags
    ELSE LET r == DecodeRune(s, i)
         IN  ScanRunes(s, i + r.width,
                       [needsQuotes |-> flags.needsQuotes \/ RuneNeedsQuotes(r.ch, i - 1),
                        containsNewlines |-> flags.containsNewlines \/ RuneSetsNewlines(r.ch)])

\* unicode.IsSpace on a rune below 0x100.
IsSpace(r) == r \in {Tab, NL, 11, 12, CR, Space, 133, 160}

determineStyle(s) ==
    LET flags == ScanRunes(s, 1, [needsQuotes |-> FALSE, containsNewlines |-> FALSE])
    IN  IF flags.containsNewlines /\ ~flags.needsQuotes THEN "DoubleQuotedStyle"
        ELSE IF flags.needsQuotes \/ Len(s) = 0 \/ IsSpace(s[Len(s)]) THEN "DoubleQuotedStyle"
        ELSE "TaggedStyle"

(***************************************************************************)
(* alignComments.                                                          *)
(***************************************************************************)
\* bufio.ScanLines' dropCR.
DropCR(line) == IF Len(line) > 0 /\ line[Len(line)] = CR THEN Take(line, Len(line) - 1) ELSE line

\* bufio.Scanner with ScanLines: the lines of data, each without its "\n" and
\* without one trailing "\r"; a last line need not be terminated.
RECURSIVE ScanLines(_)
ScanLines(data) ==
    IF data = <<>> THEN <<>>
    ELSE IF ~Contains(data, NL) THEN <<DropCR(data)>>
    ELSE LET i == CHOOSE j \in 1..Len(data) : data[j] = NL /\ \A k \in 1..(j - 1) : data[k] # NL
         IN  <<DropCR(Take(data, i - 1))>> \o ScanLines(Drop(data, i))

\* strings.Index instead: the first marker of the line.
LastIndexMarker_First(line) ==
    LET hits == {i \in 1..(Len(line) - 1) : line[i] = Hash /\ line[i + 1] = Space}
    IN  IF hits = {} THEN -1 ELSE (CHOOSE i \in hits : \A j \in hits : j >= i) - 1

\* strings.LastIndex(line, "# "): 0-based, -1 when absent.
LastIndexMarker(line) ==
    LET hits == {i \in 1..(Len(line) - 1) : line[i] = Hash /\ line[i + 1] = Space}
    IN  IF hits = {} THEN -1 ELSE (CHOOSE i \in hits : \A j \in hits : j <= i) - 1

\* The first loop: the largest marker index over the lines, starting from 0.
RECURSIVE Widest(_, _)
Widest(lines, widest) ==
    IF lines = <<>> THEN widest
    ELSE Widest(Tail(lines), IF LastIndexMarker(Head(lines)) > widest
                             THEN LastIndexMarker(Head(lines)) ELSE widest)

\* The column rounded up to the tab stop instead.
Column_TabStop(widest) == widest + 8 + ((4 - (widest % 4)) % 4)

\* widest += 8 + (widest % 4)
Column(widest) == widest + 8 + (widest % 4)

\* Whether the second loop rewrites the line.
Rewritten(line) == LastIndexMarker(line) > 0

\* The line rewritten with its token left as it is, not decoded.
AlignLine_NotDecoded(line, column) ==
    LET found == LastIndexMarker(line)
        c == decodeComment(Drop(line, found + 2))
    IN  [left |-> Take(line, found), found |-> found, comment |-> c.s, err |-> c.err,
         text |-> Take(line, found) \o Spaces(column - found) \o Drop(line, found) \o <<NL>>]

\* What the second loop writes for one line it rewrites, or the decoding error.
AlignLine(line, column) ==
    LET found == LastIndexMarker(line)
        left == Take(line, found)
        right == Drop(line, found)
        c == decodeComment(Drop(right, 2))
    IN  [left |-> left, found |-> found, comment |-> c.s, err |-> c.err,
         text |-> left \o Spaces(column - found) \o Marker \o c.s \o <<NL>>]

\* The second loop: one entry a rewritten line, in order, up to and including
\* the first that fails to decode.
RECURSIVE AlignLines(_, _)
AlignLines(lines, column) ==
    IF lines = <<>> THEN <<>>
    ELSE IF ~Rewritten(Head(lines)) THEN AlignLines(Tail(lines), column)
    ELSE LET e == AlignLine(Head(lines), column)
         IN  IF e.err # Nil THEN <<e>> ELSE <<e>> \o AlignLines(Tail(lines), column)

AlignEntries(data) == AlignLines(ScanLines(data), Column(Widest(ScanLines(data), 0)))

alignComments(data) ==
    LET es == AlignEntries(data)
    IN  IF es # <<>> /\ es[Len(es)].err # Nil THEN [b |-> NilBytes, err |-> es[Len(es)].err]
        ELSE [b |-> Flatten([i \in 1..Len(es) |-> es[i].text]), err |-> Nil]

(***************************************************************************)
(* meta.Object, as the encoder reads it.  An object is a record            *)
(*   [kind, origin, value, array, map]                                     *)
(* kind is what Kind() returns ("Value", "Array", "Map"); origin what      *)
(* OriginString() returns, empty when no origin is known; value (of a      *)
(* "Value") is a string [t |-> "string", s], a non-string primitive        *)
(* [t |-> "int", s] with its YAML text s, or a value the node encoder      *)
(* rejects: [t |-> "error"] by returning an error, [t |-> "panic"] (a      *)
(* channel) by panicking; array is a sequence of objects; map a function   *)
(* from keys to objects.                                                   *)
(***************************************************************************)
ErrEncoding == "encoding error"

\* The error the node encoder returns, as opposed to panicking with.
ErrMarshal == "marshal error"

\* len(obj.Map)
LenMap(o) == IF o.kind = "Map" THEN Cardinality(DOMAIN o.map) ELSE 0

\* The zero yml.Node.
ZeroNode == [Kind |-> "", Style |-> "", Tag |-> "", Value |-> <<>>, LineComment |-> <<>>, Content |-> <<>>]

\* (*yml.Node).Encode(v) for a value that is not a string: the node is
\* overwritten as a whole, its comment included; or an error; or a panic.
NodeEncode(node, v) ==
    CASE v.t = "int" -> [n |-> [ZeroNode EXCEPT !.Kind = "ScalarNode", !.Tag = "!!int", !.Value = v.s],
                         err |-> Nil, panic |-> FALSE]
      [] v.t = "error" -> [n |-> node, err |-> ErrMarshal, panic |-> FALSE]
      [] v.t = "panic" -> [n |-> node, err |-> Nil, panic |-> TRUE]

encoderWrapper(node, v) ==
    IF v.t = "string"
    THEN [n |-> [node EXCEPT !.Style = determineStyle(v.s), !.Kind = "ScalarNode", !.Value = v.s],
          err |-> Nil]
    ELSE LET r == NodeEncode(node, v)
         IN  IF r.panic THEN [n |-> r.n, err |-> ErrEncoding]
             ELSE [n |-> r.n, err |-> r.err]

\* Go's string comparison: bytewise, a proper prefix first.
RECURSIVE StringLess(_, _)
StringLess(x, y) ==
    IF y = <<>> THEN FALSE
    ELSE IF x = <<>> THEN TRUE
    ELSE IF Head(x) # Head(y) THEN Head(x) < Head(y)
    ELSE StringLess(Tail(x), Tail(y))

RECURSIVE InsertSorted(_, _)
InsertSorted(k, sorted) ==
    IF sorted = <<>> THEN <<k>>
    ELSE IF StringLess(k, Head(sorted)) THEN <<k>> \o sorted
    ELSE <<Head(sorted)>> \o InsertSorted(k, Tail(sorted))

RECURSIVE SortStrings(_)
SortStrings(keys) == IF keys = <<>> THEN <<>> ELSE InsertSorted(Head(keys), SortStrings(Tail(keys)))

\* `for key := range obj.Map`: the keys in the order this run iterates the map.
RangeKeys(m, ord) == SelectSeq(ord, LAMBDA k : k \in DOMAIN m)

\* The keys left in the order the map was iterated in.
MapKeys_Unsorted(m, ord) == RangeKeys(m, ord)

\* The keys encode walks: collected in iteration order, then sorted.
MapKeys(m, ord) == SortStrings(RangeKeys(m, ord))

\* The key node of the mapping loop for a key whose value is v.
KeyNode(k, v) ==
    [ZeroNode EXCEPT !.Kind = "ScalarNode", !.LineComment = encodeComment(v.origin), !.Value = k]

\* A loop that builds the children subs[1], subs[2], ... in turn and returns at
\* the first that fails: that child's error, or the node with its content.
Collect(node, subs, content) ==
    IF \E i \in 1..Len(subs) : subs[i].err # Nil
    THEN [n |-> ZeroNode,
          err |-> subs[CHOOSE i \in 1..Len(subs) :
                         subs[i].err # Nil /\ \A j \in 1..(i - 1) : subs[j].err = Nil].err]
    ELSE [n |-> [node EXCEPT !.Content = content], err |-> Nil]

\* The scalar node left as the scalar encoding returned it.
SetLineComment_Skipped(node, o) == node

\* n.LineComment = encodeComment(obj.OriginString()), after the scalar encoding.
SetLineComment(node, o) == [node EXCEPT !.LineComment = encodeComment(o.origin)]

RECURSIVE encode(_, _)
encode(o, ord) ==
    LET n0 == [ZeroNode EXCEPT !.LineComment = encodeComment(o.origin)]
    IN  CASE o.kind = "Value" ->
               LET r == encoderWrapper(n0, o.value)
               IN  IF r.err # Nil THEN [n |-> ZeroNode, err |-> r.err]
                   ELSE [n |-> SetLineComment(r.n, o), err |-> Nil]
          [] o.kind = "Array" ->
               LET subs == [i \in 1..Len(o.array) |-> encode(o.array[i], ord)]
               IN  Collect([n0 EXCEPT !.Kind = "SequenceNode"], subs,
                           [i \in 1..Len(subs) |-> subs[i].n])
          [] o.kind = "Map" ->
               LET keys == MapKeys(o.map, ord)
                   subs == [i \in 1..Len(keys) |-> encode(o.map[keys[i]], ord)]
               IN  Collect([n0 EXCEPT !.Kind = "MappingNode"], subs,
                           [i \in 1..(2 * Len(keys)) |->
                              IF i % 2 = 1 THEN KeyNode(keys[(i + 1) \div 2], o.map[keys[(i + 1) \div 2]])
                              ELSE subs[i \div 2].n])

(***************************************************************************)
(* yml.Marshal of the document: block style, four spaces a level, one      *)
(* line a scalar, a node's LineComment after " # " at the end of its line. *)
(* A key whose value is a collection carries its own comment on its line;  *)
(* the comment of a collection node itself is not written.                 *)
(***************************************************************************)
Indent == 4

RECURSIVE EscapeDoubleQuoted(_)
EscapeDoubleQuoted(s) ==
    IF s = <<>> THEN <<>>
    ELSE (CASE Head(s) = NL -> <<Backslash, 110>>
            [] Head(s) = DQuote -> <<Backslash, DQuote>>
            [] Head(s) = Backslash -> <<Backslash, Backslash>>
            [] OTHER -> <<Head(s)>>) \o EscapeDoubleQuoted(Tail(s))

\* Whether the emitter writes a scalar it was not told to quote as it is.
PlainAllowed(s) ==
    /\ s # <<>>
    /\ s[1] \notin {Hash, Space, DQuote, Apostrophe}
    /\ s[Len(s)] # Space
    /\ ~\E i \in 1..(Len(s) - 1) : (s[i] = Space /\ s[i + 1] = Hash) \/ (s[i] = Colon /\ s[i + 1] = Space)

RECURSIVE EscapeSingleQuoted(_)
EscapeSingleQuoted(s) ==
    IF s = <<>> THEN <<>>
    ELSE (IF Head(s) = Apostrophe THEN <<Apostrophe, Apostrophe>> ELSE <<Head(s)>>)
         \o EscapeSingleQuoted(Tail(s))

ScalarText(node) ==
    IF node.Style = "DoubleQuotedStyle" THEN <<DQuote>> \o EscapeDoubleQuoted(node.Value) \o <<DQuote>>
    ELSE IF PlainAllowed(node.Value) THEN node.Value
    ELSE <<Apostrophe>> \o EscapeSingleQuoted(node.Value) \o <<Apostrophe>>

\* " # " and the comment, when there is one.
LineCommentText(c) == IF c = <<>> THEN <<>> ELSE <<Space>> \o Marker \o c

\* The lines of a collection node; first is what precedes its first key or
\* item on that one's line, the later ones being indented by indent.
RECURSIVE MarshalBlock(_, _, _)
MarshalBlock(node, indent, first) ==
    LET lead(i) == IF i = 1 THEN first ELSE Spaces(indent)
        inner == indent + Indent
    IN  IF node.Kind = "MappingNode"
        THEN Flatten([i \in 1..(Len(node.Content) \div 2) |->
               LET key == node.Content[2 * i - 1]
                   val == node.Content[2 * i]
                   prefix == lead(i) \o ScalarText(key) \o <<Colon>>
               IN  IF val.Kind = "ScalarNode"
                   THEN prefix \o <<Space>> \o ScalarText(val)
                          \o LineCommentText(IF val.LineComment # <<>> THEN val.LineComment
                                             ELSE key.LineComment) \o <<NL>>
                   ELSE prefix \o LineCommentText(key.LineComment) \o <<NL>>
                          \o MarshalBlock(val, inner, Spaces(inner))])
        ELSE Flatten([i \in 1..Len(node.Content) |->
               LET item == node.Content[i]
                   prefix == lead(i) \o <<Dash>>
               IN  IF item.Kind = "ScalarNode"
                   THEN prefix \o <<Space>> \o ScalarText(item)
                          \o LineCommentText(item.LineComment) \o <<NL>>
                   ELSE MarshalBlock(item, inner, prefix \o Spaces(Indent - 1))])

\* yml.Marshal(&doc) with the tree as the document's only content.
Marshal(node) ==
    IF node.Kind = "ScalarNode"
    THEN ScalarText(node) \o LineCommentText(node.LineComment) \o <<NL>>
    ELSE MarshalBlock(node, 0, <<>>)

(***************************************************************************)
(* Encoder.EncodeExtended.                                                 *)
(***************************************************************************)
\* What EncodeExtended returns, with the tree built and the bytes marshalled
\* on the way: alignComments' result a for the bytes raw of the tree node.
Aligned(node, raw, a) == [n |-> node, b |-> raw, got |-> a.b, err |-> a.err]

\* yml.Marshal of the tree (which returns no error for a tree encode built),
\* then alignComments.
Marshalled(node, raw) == Aligned(node, raw, alignComments(raw))

\* The stages after the empty check, from encode's result e.
Stages(e) ==
    IF e.err # Nil THEN [n |-> e.n, b |-> NilBytes, got |-> NilBytes, err |-> e.err]
    ELSE Marshalled(e.n, Marshal(e.n))

Pipeline(o, ord) == Stages(encode(o, ord))

EncodeExtended(o, ord) ==
    IF LenMap(o) = 0 THEN [n |-> ZeroNode, b |-> NilBytes, got |-> NullDoc, err |-> Nil]
    ELSE Pipeline(o, ord)

(***************************************************************************)
(* Bounds and the arguments the specifications draw.                       *)
(***************************************************************************)
\* Nodes of an object tree given to EncodeExtended.
MaxNodes == 3
\* Bytes of a string given to determineStyle.
MaxStyleLen == 3
\* Bytes of a string given to encodeComment.
MaxCommentLen == 6
\* Pieces of a text given to alignComments.
MaxPieces == 2

NoValue == [t |-> "nil", s |-> <<>>]
NoMap == <<>>

ValueObject(origin, v) == [kind |-> "Value", origin |-> origin, value |-> v, array |-> <<>>, map |-> NoMap]
ArrayObject(origin, a) == [kind |-> "Array", origin |-> origin, value |-> NoValue, array |-> a, map |-> NoMap]
MapObject(origin, m) == [kind |-> "Map", origin |-> origin, value |-> NoValue, array |-> <<>>, map |-> m]

\* The zero meta.Object: a mapping without keys.
EmptyObject == MapObject(<<>>, NoMap)

\* Scalars: "v" from "f"; "x# y" of unknown origin; 7 from "o# p"; a
\* two-line string; a value the node encoder returns an error for; a channel.
Scalars ==
    { ValueObject(<<102>>, [t |-> "string", s |-> <<118>>]),
      ValueObject(<<>>, [t |-> "string", s |-> <<120, Hash, Space, 121>>]),
      ValueObject(<<111, Hash, Space, 112>>, [t |-> "int", s |-> <<55>>]),
      ValueObject(<<102>>, [t |-> "string", s |-> <<118, NL, 119>>]),
      ValueObject(<<103>>, [t |-> "error", s |-> <<>>]),
      ValueObject(<<103>>, [t |-> "panic", s |-> <<>>]) }

\* Origins of arrays and maps: "m", or none.
CollectionOrigins == {<<109>>, <<>>}

\* Keys: "B", "a", "a#".
Keys == {<<66>>, <<97>>, <<97, Hash>>}

\* Orders in which a run may iterate the keys of a map.
Orders == { <<<<66>>, <<97>>, <<97, Hash>>>>,
            <<<<97, Hash>>, <<97>>, <<66>>>>,
            <<<<97>>, <<97, Hash>>, <<66>>>> }

\* Sequences of object trees of m nodes in all, the trees of j nodes being t[j].
RECURSIVE ListsOfSize(_, _)
ListsOfSize(t, m) ==
    IF m = 0 THEN {<<>>}
    ELSE UNION {{<<x>> \o r : x \in t[j], r \in ListsOfSize(t, m - j)} : j \in 1..m}

\* The map with the keys K whose values are those of l, in the keys' order.
MapOf(K, l) == [key \in K |-> l[Cardinality({c \in K : StringLess(c, key)}) + 1]]

\* Maps, not empty, whose values have m nodes in all.
MapsOfSize(t, m) ==
    UNION {{MapOf(K, l) : l \in {x \in ListsOfSize(t, m) : Len(x) = Cardinality(K)}} :
             K \in (SUBSET Keys) \ {{}}}

\* The table t of the trees of fewer than k nodes, with the trees of k nodes added.
AddLevel(t, k) ==
    Append(t, {ArrayObject(o, l) : o \in CollectionOrigins, l \in ListsOfSize(t, k - 1)}
              \cup {MapObject(o, m) : o \in CollectionOrigins, m \in MapsOfSize(t, k - 1)})

\* <<the object trees of 1 node, ..., the object trees of k nodes>>; arrays
\* and maps in them are not empty.  (The table of k - 1 is bound as a set's
\* element so that it is computed once.)
RECURSIVE ObjectTable(_)
ObjectTable(k) ==
    IF k = 1 THEN <<Scalars>>
    ELSE CHOOSE r \in {AddLevel(t, k) : t \in {ObjectTable(k - 1)}} : TRUE

Objects == {EmptyObject} \cup UNION {UNION {t[k] : k \in 1..MaxNodes} : t \in {ObjectTable(MaxNodes)}}

\* Bytes of the strings classified: tab, newline, backspace, space, ':', '-',
\* '\', '"', 'a', DEL, and the two bytes of U+00A0.
StyleBytes == {Tab, NL, 8, Space, Colon, Dash, Backslash, DQuote, 97, 127, 194, 160}

\* Bytes of the comments encoded.
CommentBytes == {0, Hash, 97, 255}

\* Pieces of raw text: what precedes a marker, the marker and its token
\* (or none), and the line's end (or none).
Token(c) == Marker \o EncodeToString(c)

Pieces ==
    {l \o t \o <<NL>> :
        l \in {<<>>, <<107>>, <<107, Hash, Space>>, <<107, Colon, Space, 118, Space>>},
        t \in {<<>>, Token(<<97>>), Token(<<>>), Marker \o <<33>>}}
    \cup { <<107, 107, Space>> \o Token(<<99, Hash, Space, 100>>) \o <<CR, NL>>,
           <<107, Space>> \o Token(<<97, NL, 98>>) \o <<NL>>,
           <<107, Space>> \o Token(<<97>>) }

Texts == {Flatten(ps) : ps \in SeqsUpTo(Pieces, MaxPieces)}

(***************************************************************************)
(* EncodeExtended on an object tree.                                       *)
(***************************************************************************)
Init ==
    /\ pc = "start"
    /\ obj \in Objects
    /\ order \in Orders
    /\ n = ZeroNode
    /\ b = NilBytes
    /\ got = NilBytes
    /\ err = Nil
    /\ input = None /\ style = None /\ token = None /\ comment = None
    /\ buf = None /\ aligned = None /\ realigned = None

EncodeExtendedCall ==
    /\ pc = "start"
    /\ \E r \in {EncodeExtended(obj, order)} :
          /\ n' = r.n
          /\ b' = r.b
          /\ got' = r.got
          /\ err' = r.err
    /\ pc' = "done"
    /\ UNCHANGED <<obj, order, input, style, token, comment, buf, aligned, realigned>>

Next == EncodeExtendedCall

Spec == Init /\ [][Next]_vars

(***************************************************************************)
(* determineStyle on a string.                                             *)
(***************************************************************************)
InitStyle ==
    /\ pc = "start"
    /\ input \in SeqsUpTo(StyleBytes, MaxStyleLen)
    /\ style = None
    /\ obj = None /\ order = None /\ n = None /\ b = None /\ got = None /\ err = None
    /\ token = None /\ comment = None /\ buf = None /\ aligned = None /\ realigned = None

DetermineStyleCall ==
    /\ pc = "start"
    /\ style' = determineStyle(input)
    /\ pc' = "done"
    /\ UNCHANGED <<obj, order, n, b, got, err, input, token, comment, buf, aligned, realigned>>

NextStyle == DetermineStyleCall

SpecStyle == InitStyle /\ [][NextStyle]_vars

(***************************************************************************)
(* encodeComment, then decodeComment of its result.                        *)
(***************************************************************************)
InitCodec ==
    /\ pc = "start"
    /\ input \in SeqsUpTo(CommentBytes, MaxCommentLen)
    /\ token = None
    /\ comment = None
    /\ obj = None /\ order = None /\ n = None /\ b = None /\ got = None /\ err = None
    /\ style = None /\ buf = None /\ aligned = None /\ realigned = None

EncodeCommentCall ==
    /\ pc = "start"
    /\ token' = encodeComment(input)
    /\ pc' = "encoded"
    /\ UNCHANGED <<obj, order, n, b, got, err, input, style, comment, buf, aligned, realigned>>

DecodeCommentCall ==
    /\ pc = "encoded"
    /\ comment' = decodeComment(token)
    /\ pc' = "decoded"
    /\ UNCHANGED <<obj, order, n, b, got, err, input, style, token, buf, aligned, realigned>>

NextCodec == EncodeCommentCall \/ DecodeCommentCall

SpecCodec == InitCodec /\ [][NextCodec]_vars

(***************************************************************************)
(* alignComments on raw text, then again on its output with the comments   *)
(* encoded again.                                                          *)
(***************************************************************************)
InitAlign ==
    /\ pc = "start"
    /\ buf \in Texts
    /\ aligned = None
    /\ realigned = None
    /\ obj = None /\ order = None /\ n = None /\ b = None /\ got = None /\ err = None
    /\ input = None /\ style = None /\ token = None /\ comment = None

AlignCommentsCall ==
    /\ pc = "start"
    /\ aligned' = alignComments(buf)
    /\ pc' = "aligned"
    /\ UNCHANGED <<obj, order, n, b, got, err, input, style, token, comment, buf, realigned>>

\* The output of alignComments(data) with every comment replaced by its encoding.
ReEncoded(data) ==
    LET es == AlignEntries(data)
    IN  Flatten([i \in 1..Len(es) |->
                   es[i].left \o Spaces(Column(Widest(ScanLines(data), 0)) - es[i].found)
                     \o Marker \o encodeComment(es[i].comment) \o <<NL>>])

AlignAgainCall ==
    /\ pc = "aligned"
    /\ aligned.err = Nil
    /\ realigned' = alignComments(ReEncoded(buf))
    /\ pc' = "realigned"
    /\ UNCHANGED <<obj, order, n, b, got, err, input, style, token, comment, buf, aligned>>

NextAlign == AlignCommentsCall \/ AlignAgainCall

SpecAlign == InitAlign /\ [][NextAlign]_vars

(***************************************************************************)
(* Claims about the comment codec (SpecCodec).                             *)
(***************************************************************************)
\* C2 as stated: for every string s, the empty one included,
\* decodeComment(encodeComment(s)) returns s and no error.
C2_RoundTripEveryString ==
    pc = "decoded" => comment.err = Nil /\ comment.s = input

\* C2 amended: decodeComment(encodeComment(s)) returns no error, and returns s
\* for every string s that is not empty and "unknown" for the empty string.
C2_RoundTripOrUnknown ==
    pc = "decoded" =>
        /\ comment.err = Nil
        /\ input # <<>> => comment.s = input
        /\ input = <<>> => comment.s = Unknown

\* A string longer than one base32 group, with the marker byte in it, came back.
C2_Witness ==
    pc = "decoded" /\ Len(input) > 5 /\ Contains(input, Hash) /\ comment.s = input

(***************************************************************************)
(* Claims about determineStyle (SpecStyle).                                *)
(***************************************************************************)
\* The ASCII control characters: below 0x20, and DEL.
IsAsciiControl(c) == c < 32 \/ c = 127

\* What C3 says is quoted.  (A code point above 0x7F is, in the bytes of the
\* string, a byte above 0x7F; a last character that is whitespace and not
\* such a code point is one of the ASCII blanks.)
C3_Quoted(s) ==
    \/ s = <<>>
    \/ s[Len(s)] \in {Tab, NL, 11, 12, CR, Space}
    \/ \E i \in 1..Len(s) :
          \/ s[i] = NL
          \/ IsAsciiControl(s[i]) /\ s[i] # Tab
          \/ s[i] = Backslash
          \/ s[i] = DQuote
          \/ s[i] > 127
    \/ s[1] \in {Colon, Dash}

\* C3: determineStyle(s) is double-quoted exactly when s is empty, ends in
\* whitespace, or contains a newline, a non-printable ASCII control character
\* other than tab, a backslash, a double quote, a code point above 0x7F or a
\* leading colon or hyphen; it is plain for every other string.
C3_StyleAsStated ==
    pc = "done" =>
        /\ style \in {"DoubleQuotedStyle", "TaggedStyle"}
        /\ style = "DoubleQuotedStyle" <=> C3_Quoted(input)

(***************************************************************************)
(* Claims about alignComments (SpecAlign).                                 *)
(***************************************************************************)
\* The largest of a set of naturals, 0 for the empty set.
MaxOf(S) == IF S = {} THEN 0 ELSE CHOOSE x \in S : \A y \in S : y <= x

\* The largest index, over the lines of a text, of a line's last marker; 0
\* when no line has one.
WidestMarker(data) ==
    MaxOf({LastIndexMarker(ScanLines(data)[i]) : i \in 1..Len(ScanLines(data))} \cup {0})

\* The line C8 describes for an input line with a marker: the text before the
\* last marker, spaces up to the column, the marker, the decoded comment.
ExpectedLine(line, column) ==
    Take(line, LastIndexMarker(line))
      \o [i \in 1..(column - LastIndexMarker(line)) |-> Space]
      \o Marker
      \o DecodeString(Drop(line, LastIndexMarker(line) + 2)).bytes
      \o <<NL>>

\* The lines of a text that satisfy keep, in order.
LinesWhere(data, keep(_)) == SelectSeq(ScanLines(data), keep)

\* The text of C8's lines for the given lines.
ExpectedText(lines, column) == Flatten([i \in 1..Len(lines) |-> ExpectedLine(lines[i], column)])

TokenDecodes(line) == DecodeString(Drop(line, LastIndexMarker(line) + 2)).ok

\* C9: when alignComments succeeds its output has exactly one line for each
\* input line that contains the marker, at any column, column 0 included, in
\* the input order, and none for a line without the marker; when a marker
\* line's token fails to decode it returns an error and nil bytes.
C9_OneLinePerMarkerLine ==
    pc = "aligned" =>
        LET marked == LinesWhere(buf, LAMBDA l : LastIndexMarker(l) >= 0)
            column == WidestMarker(buf) + 8 + (WidestMarker(buf) % 4)
        IN  IF \A i \in 1..Len(marked) : TokenDecodes(marked[i])
            THEN aligned.err = Nil /\ aligned.b = ExpectedText(marked, column)
            ELSE aligned.err # Nil /\ aligned.b = NilBytes

\* The output of the first run, line by line, as C6 amended has the second
\* run write it: the comments one column step further, an empty comment as
\* "unknown".
ShiftedText(data) ==
    LET lines == LinesWhere(data, LAMBDA l : LastIndexMarker(l) > 0)
        first == WidestMarker(data) + 8 + (WidestMarker(data) % 4)
        second == first + 8 + (first % 4)
    IN  Flatten([i \in 1..Len(lines) |->
          LET c == DecodeString(Drop(lines[i], LastIndexMarker(lines[i]) + 2)).bytes
          IN  Take(lines[i], LastIndexMarker(lines[i]))
                \o [k \in 1..(second - LastIndexMarker(lines[i])) |-> Space]
                \o Marker \o (IF c = <<>> THEN Unknown ELSE c) \o <<NL>>])

\* C6 as stated: alignComments run again on its output, the comments encoded
\* again, yields that output byte for byte.
C6_Idempotent ==
    pc = "realigned" => realigned.err = Nil /\ realigned.b = aligned.b

\* C6 amended: the second run succeeds and writes the same lines with the
\* same text before the comment and the same comment ("unknown" for an empty
\* one), but starting at column W + 8 + (W mod 4), W being the column of the
\* first run; it equals the first output only when that is empty.
C6_ShiftedAgain ==
    pc = "realigned" =>
        /\ realigned.err = Nil
        /\ realigned.b = ShiftedText(buf)
        /\ realigned.b = aligned.b <=> aligned.b = <<>>

\* An output of two lines, one with an empty comment, was aligned again.
C6_Witness ==
    /\ pc = "realigned"
    /\ Len(AlignEntries(buf)) = 2
    /\ \E i \in 1..2 : AlignEntries(buf)[i].comment = <<>>
    /\ realigned.b # aligned.b

(***************************************************************************)
(* Claims about EncodeExtended and encode (Spec).                          *)
(***************************************************************************)
\* The objects of a tree: the tree itself and the objects below it.
RECURSIVE Descendants(_)
Descendants(o) ==
    {o} \cup UNION {Descendants(o.array[i]) : i \in 1..Len(o.array)}
        \cup UNION {Descendants(o.map[k]) : k \in DOMAIN o.map}

\* Some scalar of the tree has a value the node encoder rejects.
HasRejectedScalar(o) == \E d \in Descendants(o) : d.kind = "Value" /\ d.value.t \in {"error", "panic"}

\* C1: for every tree with a scalar the node encoder cannot encode, whether
\* it returns an error or panics, wherever the scalar sits, EncodeExtended
\* returns exactly ErrEncoding and nil bytes.  (Stated for trees whose root
\* is a mapping with keys, the trees the pipeline runs on.)
C1_AlwaysErrEncoding ==
    pc = "done" /\ LenMap(obj) > 0 /\ HasRejectedScalar(obj) =>
        err = ErrEncoding /\ got = NilBytes

\* C5: EncodeExtended returns "null\n" and no error, building no tree, for an
\* empty mapping; for every other top-level value (a mapping with keys, a
\* sequence, a scalar) its result is that of encode, then the renderer, then
\* alignComments, with the first error a stage reports.
C5_NullOnlyForEmptyMapping ==
    pc = "done" =>
        IF obj.kind = "Map" /\ DOMAIN obj.map = {}
        THEN got = NullDoc /\ err = Nil /\ n = ZeroNode
        ELSE /\ got = Pipeline(obj, order).got
             /\ err = Pipeline(obj, order).err

\* The keys of a map in ascending order of bytes: the i-th is the key with
\* i - 1 keys below it.
Ascending(K) ==
    [i \in 1..Cardinality(K) |-> CHOOSE k \in K : Cardinality({c \in K : StringLess(c, k)}) = i - 1]

\* Every mapping node of the tree built for o holds key, value, key, value,
\* ...: the keys strictly ascending, each followed by the node of its value.
RECURSIVE MappingsSorted(_, _, _)
MappingsSorted(node, o, ord) ==
    CASE o.kind = "Value" -> TRUE
      [] o.kind = "Array" ->
           /\ Len(node.Content) = Len(o.array)
           /\ \A i \in 1..Len(o.array) : MappingsSorted(node.Content[i], o.array[i], ord)
      [] o.kind = "Map" ->
           /\ Len(node.Content) = 2 * Cardinality(DOMAIN o.map)
           /\ \A i \in 1..Cardinality(DOMAIN o.map) :
                LET k == Ascending(DOMAIN o.map)[i]
                IN  /\ node.Content[2 * i - 1].Kind = "ScalarNode"
                    /\ node.Content[2 * i - 1].Value = k
                    /\ i > 1 => StringLess(node.Content[2 * i - 3].Value, k)
                    /\ node.Content[2 * i] = encode(o.map[k], ord).n
                    /\ MappingsSorted(node.Content[2 * i], o.map[k], ord)

\* C4: every mapping node holds its children as key, value, key, value, ...
\* with the keys strictly ascending in byte order and each key followed by
\* the node of its own value, whatever order the map is iterated in; so runs
\* that iterate the same maps in different orders return the same bytes.
C4_SortedKeys ==
    pc = "done" /\ LenMap(obj) > 0 =>
        /\ err = Nil => MappingsSorted(n, obj, order)
        /\ \A other \in Orders :
              /\ EncodeExtended(obj, other).got = got
              /\ EncodeExtended(obj, other).err = err

\* A mapping of two keys or more was encoded by a run that iterated it in an
\* order that is not the ascending one.
C4_Witness ==
    /\ pc = "done"
    /\ err = Nil
    /\ LenMap(obj) >= 2
    /\ RangeKeys(obj.map, order) # Ascending(DOMAIN obj.map)
    /\ Len(n.Content) = 2 * LenMap(obj)

\* A comment token: not empty, without '#' and without whitespace.
IsToken(t) == t # <<>> /\ \A i \in 1..Len(t) : t[i] \notin {Hash, Space, Tab, NL, 11, 12, CR}

\* The token of an origin string: its base32 encoding, that of "unknown" when
\* there is no origin.
OriginToken(origin) == EncodeToString(IF origin = <<>> THEN Unknown ELSE origin)

\* Every node of the tree built for o carries the token of its own origin,
\* and every key node that of the value it maps to.
RECURSIVE TokensCarried(_, _)
TokensCarried(node, o) ==
    /\ IsToken(node.LineComment)
    /\ node.LineComment = OriginToken(o.origin)
    /\ o.kind = "Array" =>
          /\ Len(node.Content) = Len(o.array)
          /\ \A i \in 1..Len(o.array) : TokensCarried(node.Content[i], o.array[i])
    /\ o.kind = "Map" =>
          /\ Len(node.Content) = 2 * Cardinality(DOMAIN o.map)
          /\ \A i \in 1..Cardinality(DOMAIN o.map) :
                LET key == node.Content[2 * i - 1]
                IN  /\ key.Value \in DOMAIN o.map
                    /\ IsToken(key.LineComment)
                    /\ key.LineComment = OriginToken(o.map[key.Value].origin)
                    /\ TokensCarried(node.Content[2 * i], o.map[key.Value])

\* C10: in every tree encode returns without error, every node and every
\* key node carries a non-empty token without '#' and whitespace; a node's
\* token is the encoding of its own origin string ("unknown" without one),
\* also after the scalar encoding that clears the comment, and a key node's
\* token is that of the value it maps to, not of the enclosing mapping.
C10_TokensOnEveryNode ==
    pc = "done" /\ LenMap(obj) > 0 /\ err = Nil => TokensCarried(n, obj)

\* A tree was built with a scalar the node encoder encodes (clearing the
\* comment), a node without origin, and a key whose value's origin is not
\* that of the mapping around it.
C10_Witness ==
    /\ pc = "done"
    /\ LenMap(obj) > 0
    /\ err = Nil
    /\ \E d \in Descendants(obj) : d.kind = "Value" /\ d.value.t = "int"
    /\ \E d \in Descendants(obj) : d.origin = <<>>
    /\ \E k \in DOMAIN obj.map : obj.map[k].origin # obj.origin

\* C7 as stated: for every tree on which encode succeeds, every line of the
\* final text contains exactly one occurrence of the marker character,
\* whatever the scalar values, keys and origin strings contain.
C7_ExactlyOneMarker ==
    pc = "done" /\ LenMap(obj) > 0 /\ n # ZeroNode =>
        /\ err = Nil
        /\ \A i \in 1..Len(ScanLines(got)) : Count(ScanLines(got)[i], Hash) = 1

\* C7 amended: for every tree on which encode succeeds (keys and origin
\* strings without line breaks), alignComments succeeds, the final text has
\* one line for each rendered line, and every line of it contains the marker
\* "# " at least once; it contains '#' exactly once more than the rendered
\* text before the comment and the origin string together do, so exactly
\* once only when neither contains it.
C7_OneMarkerPlusContent ==
    pc = "done" /\ LenMap(obj) > 0 /\ n # ZeroNode =>
        /\ err = Nil
        /\ Len(ScanLines(got)) = Len(ScanLines(b))
        /\ \A i \in 1..Len(ScanLines(got)) :
              LET line == ScanLines(got)[i]
                  raw == ScanLines(b)[i]
                  content == Take(raw, LastIndexMarker(raw))
                  origin == DecodeString(Drop(raw, LastIndexMarker(raw) + 2)).bytes
              IN  /\ LastIndexMarker(line) >= 0
                  /\ Count(line, Hash) = 1 + Count(content, Hash) + Count(origin, Hash)

\* A final text with a line of one '#' and a line of more than one.
C7_Witness ==
    /\ pc = "done"
    /\ LenMap(obj) > 0
    /\ err = Nil
    /\ \E i, j \in 1..Len(ScanLines(got)) :
          /\ Count(ScanLines(got)[i], Hash) = 1
          /\ Count(ScanLines(got)[j], Hash) > 1

====
